---- MODULE Spec2Model ----
(***************************************************************************)
(* A model of kayrus/ec2auth: the logging RoundTripper of pkg/client.go    *)
(* (header masking, JSON redaction, body interception, retry loop) and the *)
(* load harness of the command (dispatch loop, workers, reporter).         *)
(*                                                                         *)
(* Text is modelled as a sequence of one-character strings, so that        *)
(* prefixes, substrings, case folding and byte order are computed.         *)
(***************************************************************************)
EXTENDS Integers, Sequences, FiniteSets, Bags, TLC

VARIABLES
    \* FormatJSON applied to one body (pkg/client.go FormatJSON)
    jsPc, jsRaw, jsOut,
    \* header masking (SetSensitiveHeaders / formatHeaders)
    hdrPc, maskHeaders, hdrIn, hdrOut,
    \* one RoundTrip call (RoundTripper.RoundTrip)
    rtPc, rtCfg, rtReq, rtStreams, rtRetry, rtResp, rtErr, rtCalls, rtLog, rtResult,
    \* the command: flags, main goroutine, limiter channel, workers, counters,
    \* error tally and its lock, reporter, output
    threads, debug, showErr, failAll, mainPc, limiter, workers, ops, fps, totalReq,
    totalErr, errs, lck, rep, lines, exit,
    \* one call of pkg.OpenStackEC2Auth: what gophercloud gives it, what it returns
    ecPc, ecIn, ecOut

jsVars == <<jsPc, jsRaw, jsOut>>
hdrVars == <<hdrPc, maskHeaders, hdrIn, hdrOut>>
rtVars == <<rtPc, rtCfg, rtReq, rtStreams, rtRetry, rtResp, rtErr, rtCalls, rtLog, rtResult>>
loadVars == <<threads, debug, showErr, failAll, mainPc, limiter, workers, ops, fps, totalReq,
              totalErr, errs, lck, rep, lines, exit>>
authVars == <<ecPc, ecIn, ecOut>>
vars == <<jsVars, hdrVars, rtVars, loadVars, authVars>>

(***************************************************************************)
(* Text helpers: the functions of package strings and sort that the code   *)
(* calls.                                                                  *)
(***************************************************************************)

\* The characters the model uses, in byte order.
AsciiOrder ==
    << "\n", " ", "\"", "&", "*", ",", "-", "/", "0", "1", "2", "3", "6", "7",
       ":", "A", "C", "K", "S", "T", "U", "X", "[", "\\", "]", "_",
       "a", "b", "c", "d", "e", "f", "g", "h", "i", "j", "k", "l", "m",
       "n", "o", "p", "q", "r", "s", "t", "u", "v", "w", "x", "y", "z",
       "{", "}" >>

Code(c) == CHOOSE i \in 1..Len(AsciiOrder) : AsciiOrder[i] = c

\* unicode.ToLower on the letters of the alphabet
LowerOf(c) ==
    CASE c = "A" -> "a"
      [] c = "C" -> "c"
      [] c = "K" -> "k"
      [] c = "S" -> "s"
      [] c = "T" -> "t"
      [] c = "U" -> "u"
      [] c = "X" -> "x"
      [] OTHER -> c

\* strings.ToLower
ToLower(s) == [i \in 1..Len(s) |-> LowerOf(s[i])]

\* strings.HasPrefix
HasPrefix(s, p) == Len(p) <= Len(s) /\ SubSeq(s, 1, Len(p)) = p

\* strings.HasSuffix
HasSuffix(s, p) == Len(p) <= Len(s) /\ SubSeq(s, Len(s) - Len(p) + 1, Len(s)) = p

\* strings.Contains
Contains(s, sub) ==
    \E i \in 0..(Len(s) - Len(sub)) : SubSeq(s, i + 1, i + Len(sub)) = sub

\* strings.Replace(s, old, new, -1): every non-overlapping occurrence, left
\* to right; an empty old matches before every character and at the end.
RECURSIVE ReplaceFrom(_, _, _, _)
ReplaceFrom(s, old, new, i) ==
    IF old = <<>>
    THEN IF i > Len(s) THEN new
         ELSE new \o <<s[i]>> \o ReplaceFrom(s, old, new, i + 1)
    ELSE IF i > Len(s) THEN <<>>
         ELSE IF i + Len(old) - 1 <= Len(s) /\ SubSeq(s, i, i + Len(old) - 1) = old
              THEN new \o ReplaceFrom(s, old, new, i + Len(old))
              ELSE <<s[i]>> \o ReplaceFrom(s, old, new, i + 1)

Replace(s, old, new) == ReplaceFrom(s, old, new, 1)

\* the order of Go strings (bytewise), as sort.Strings uses it
StrLess(a, b) ==
    \E i \in 1..(Len(a) + 1) :
        /\ i <= Len(b)
        /\ \A j \in 1..(i - 1) : a[j] = b[j]
        /\ (i = Len(a) + 1 \/ Code(a[i]) < Code(b[i]))

\* sort.Strings of a collection of distinct strings
RECURSIVE SortStrings(_)
SortStrings(S) ==
    IF S = {} THEN <<>>
    ELSE LET m == CHOOSE x \in S : \A y \in S \ {x} : StrLess(x, y)
         IN <<m>> \o SortStrings(S \ {m})

\* strings.Join
RECURSIVE Join(_, _)
Join(parts, sep) ==
    IF Len(parts) = 0 THEN <<>>
    ELSE IF Len(parts) = 1 THEN parts[1]
    ELSE parts[1] \o sep \o Join(Tail(parts), sep)

\* the mask token "***" (client.go:133, 317, ...)
MaskText == <<"*", "*", "*">>

(***************************************************************************)
(* JSON values as encoding/json decodes them into interface{}:             *)
(* map[string]interface{}, []interface{}, string, float64, nil.            *)
(***************************************************************************)
Str(s) == [t |-> "str", s |-> s]
Num(n) == [t |-> "num", n |-> n]
Null == [t |-> "null"]
Obj(f) == [t |-> "obj", o |-> f]
Arr(a) == [t |-> "arr", a |-> a]
EmptyMap == [k \in {} |-> Null]

\* the keys FormatJSON looks at, and two it does not
K_auth == <<"a","u","t","h">>
K_passwordCredentials ==
    <<"p","a","s","s","w","o","r","d","C","r","e","d","e","n","t","i","a","l","s">>
K_password == <<"p","a","s","s","w","o","r","d">>
K_token == <<"t","o","k","e","n">>
K_id == <<"i","d">>
K_identity == <<"i","d","e","n","t","i","t","y">>
K_user == <<"u","s","e","r">>
K_application_credential ==
    <<"a","p","p","l","i","c","a","t","i","o","n","_","c","r","e","d","e","n","t","i","a","l">>
K_secret == <<"s","e","c","r","e","t">>
K_credentials == <<"c","r","e","d","e","n","t","i","a","l","s">>
K_access == <<"a","c","c","e","s","s">>
K_body_hash == <<"b","o","d","y","_","h","a","s","h">>
K_headers == <<"h","e","a","d","e","r","s">>
K_Authorization == <<"A","u","t","h","o","r","i","z","a","t","i","o","n">>
K_catalog == <<"c","a","t","a","l","o","g">>
K_name == <<"n","a","m","e">>
K_host == <<"h","o","s","t">>

\* the decimal text of the small numbers the documents hold
NumText(n) ==
    CASE n = 0 -> <<"0">> [] n = 1 -> <<"1">> [] n = 2 -> <<"2">>
      [] n = 3 -> <<"3">> [] n = 6 -> <<"6">> [] OTHER -> <<"7">>

\* encoding/json's string encoder (with the HTML escaping Marshal applies)
EscapeChar(c) ==
    CASE c = "\"" -> <<"\\", "\"">>
      [] c = "\\" -> <<"\\", "\\">>
      [] c = "\n" -> <<"\\", "n">>
      [] c = "&" -> <<"\\", "u", "0", "0", "2", "6">>
      [] OTHER -> <<c>>

RECURSIVE Escape(_)
Escape(s) == IF s = <<>> THEN <<>> ELSE EscapeChar(Head(s)) \o Escape(Tail(s))

Quoted(s) == <<"\"">> \o Escape(s) \o <<"\"">>

RECURSIVE Indent(_)
Indent(d) == IF d = 0 THEN <<>> ELSE <<" ", " ">> \o Indent(d - 1)

\* json.MarshalIndent(v, "", "  "): keys sorted, one member per line
RECURSIVE Pretty(_, _)
RECURSIVE PrettyMembers(_, _, _)
RECURSIVE PrettyItems(_, _, _)
PrettyMembers(o, keys, d) ==
    IF Len(keys) = 0 THEN <<>>
    ELSE Indent(d) \o Quoted(keys[1]) \o <<":", " ">> \o Pretty(o[keys[1]], d)
         \o (IF Len(keys) > 1 THEN <<",">> ELSE <<>>) \o <<"\n">>
         \o PrettyMembers(o, Tail(keys), d)
PrettyItems(a, i, d) ==
    IF i > Len(a) THEN <<>>
    ELSE Indent(d) \o Pretty(a[i], d)
         \o (IF i < Len(a) THEN <<",">> ELSE <<>>) \o <<"\n">>
         \o PrettyItems(a, i + 1, d)
Pretty(v, d) ==
    CASE v.t = "str" -> Quoted(v.s)
      [] v.t = "num" -> NumText(v.n)
      [] v.t = "null" -> <<"n", "u", "l", "l">>
      [] v.t = "obj" ->
            IF DOMAIN v.o = {} THEN <<"{", "}">>
            ELSE <<"{", "\n">> \o PrettyMembers(v.o, SortStrings(DOMAIN v.o), d + 1)
                 \o Indent(d) \o <<"}">>
      [] v.t = "arr" ->
            IF Len(v.a) = 0 THEN <<"[", "]">>
            ELSE <<"[", "\n">> \o PrettyItems(v.a, 1, d + 1) \o Indent(d) \o <<"]">>

MarshalIndent(v) == Pretty(v, 0)

\* The compact text a client sends for a value (json.Marshal).
RECURSIVE Compact(_)
RECURSIVE CompactMembers(_, _)
RECURSIVE CompactItems(_, _)
CompactMembers(o, keys) ==
    IF Len(keys) = 0 THEN <<>>
    ELSE Quoted(keys[1]) \o <<":">> \o Compact(o[keys[1]])
         \o (IF Len(keys) > 1 THEN <<",">> ELSE <<>>)
         \o CompactMembers(o, Tail(keys))
CompactItems(a, i) ==
    IF i > Len(a) THEN <<>>
    ELSE Compact(a[i]) \o (IF i < Len(a) THEN <<",">> ELSE <<>>)
         \o CompactItems(a, i + 1)
Compact(v) ==
    CASE v.t = "str" -> Quoted(v.s)
      [] v.t = "num" -> NumText(v.n)
      [] v.t = "null" -> <<"n", "u", "l", "l">>
      [] v.t = "obj" -> <<"{">> \o CompactMembers(v.o, SortStrings(DOMAIN v.o)) \o <<"}">>
      [] v.t = "arr" -> <<"[">> \o CompactItems(v.a, 1) \o <<"]">>

(***************************************************************************)
(* FormatJSON (pkg/client.go:295-370).  Go maps are references, so the     *)
(* code's in-place assignments are rebuilt here from the inside out.       *)
(***************************************************************************)
MaskStr == Str(MaskText)

\* m[k] = v on a Go map: the key is added when it is not there
Put(m, k, v) == [x \in DOMAIN m \cup {k} |-> IF x = k THEN v ELSE m[x]]

\* `if _, ok := m[k]; ok { m[k] = v }`
PutIfPresent(m, k, v) == IF k \in DOMAIN m THEN Put(m, k, v) ELSE m

\* `v, ok := m[k].(map[string]interface{})`
IsMapAt(m, k) == k \in DOMAIN m /\ m[k].t = "obj"

\* `if v, ok := m[k].(map[string]interface{}); ok { F(v) }`
WithMap(m, k, F(_)) == IF IsMapAt(m, k) THEN [m EXCEPT ![k] = Obj(F(m[k].o))] ELSE m

\* faulty variant: the password assignment left out
MaskPasswordField_Skipped(m) == m

\* client.go:317 and 326: v["password"] = "***"
MaskPasswordField(m) == Put(m, K_password, MaskStr)
\* client.go:320 and 333: v["id"] = "***"
MaskIDField(m) == Put(m, K_id, MaskStr)
\* client.go:330: v["secret"] = "***"
MaskSecretField(m) == Put(m, K_secret, MaskStr)
\* client.go:324-328
MaskIdentityPassword(m) == WithMap(m, K_user, MaskPasswordField)
\* client.go:323-335
MaskIdentity(m) ==
    LET a == WithMap(m, K_password, MaskIdentityPassword)
        b == WithMap(a, K_application_credential, MaskSecretField)
    IN WithMap(b, K_token, MaskIDField)
\* client.go:314-336
MaskAuth(m) ==
    LET a == WithMap(m, K_passwordCredentials, MaskPasswordField)
        b == WithMap(a, K_token, MaskIDField)
    IN WithMap(b, K_identity, MaskIdentity)

\* client.go:340-344: `access, _ = s.(string)` leaves "" for a non-string
AccessOf(m) ==
    IF K_access \in DOMAIN m /\ m[K_access].t = "str" THEN m[K_access].s ELSE <<>>

\* client.go:348-353
MaskAuthorization(h, access) ==
    IF K_Authorization \in DOMAIN h /\ h[K_Authorization].t = "str"
    THEN Put(h, K_Authorization, Str(Replace(h[K_Authorization].s, access, MaskText)))
    ELSE h

\* client.go:339-355
MaskCredentials(m) ==
    LET access == AccessOf(m)
        a == PutIfPresent(m, K_access, MaskStr)
        b == PutIfPresent(a, K_body_hash, MaskStr)
    IN IF IsMapAt(b, K_headers)
       THEN [b EXCEPT ![K_headers] = Obj(MaskAuthorization(b[K_headers].o, access))]
       ELSE b

\* client.go:358-362
MaskCatalog(m) == PutIfPresent(m, K_catalog, MaskStr)

\* client.go:313-362: everything FormatJSON does to the decoded object
MaskFields(data) ==
    LET a == WithMap(data, K_auth, MaskAuth)
        b == WithMap(a, K_credentials, MaskCredentials)
    IN WithMap(b, K_token, MaskCatalog)

(***************************************************************************)
(* The bodies the model draws from.                                        *)
(***************************************************************************)
Secret1 == <<"s", "3", "c">>
Secret2 == <<"i", "d">>
Secrets == {Secret1, Secret2}
Bob == <<"b", "o", "b">>
AccessKey == <<"A", "K">>

\* a member that may be absent
Opt(k, V) == {EmptyMap} \cup {k :> v : v \in V}

PwCredVals ==
    {Obj(EmptyMap), Str(Secret1), Obj(K_password :> Num(7)), Obj(K_name :> Str(Bob))}
    \cup {Obj(K_password :> Str(p)) : p \in Secrets}
    \cup {Obj(K_password :> Str(Secret1) @@ K_name :> Str(u)) : u \in {Bob, Secret1}}
TokenVals == {Obj(EmptyMap), Obj(K_id :> Str(Secret1)), Str(Secret1)}
IdentityVals ==
    { Obj(EmptyMap),
      Obj(K_password :> Obj(K_user :> Obj(K_password :> Str(Secret1) @@ K_name :> Str(Bob)))),
      Obj(K_password :> Obj(K_user :> Obj(K_name :> Str(Bob)))),
      Obj(K_password :> Obj(EmptyMap)),
      Obj(K_application_credential :> Obj(K_secret :> Str(Secret1))),
      Obj(K_application_credential :> Obj(K_id :> Str(Bob))),
      Obj(K_token :> Obj(K_id :> Str(Secret1))),
      Obj(K_token :> Obj(EmptyMap)) }
AuthDocs ==
    {Obj(K_auth :> Obj(a @@ b @@ c)) :
        a \in Opt(K_passwordCredentials, PwCredVals),
        b \in Opt(K_token, TokenVals),
        c \in Opt(K_identity, IdentityVals)}

AuthorizationVals ==
    { Str(AccessKey \o <<"/">> \o Secret1), Str(<<"x">> \o AccessKey \o <<"/">> \o AccessKey),
      Str(<<"x", "y">>), Num(7) }
HeadersVals ==
    {Obj(EmptyMap), Obj(K_host :> Str(Bob))}
    \cup {Obj(K_Authorization :> v) : v \in AuthorizationVals}
    \cup {Obj(K_Authorization :> Str(<<"x", "y">>) @@ K_host :> Str(Bob))}
CredDocs ==
    {Obj(K_credentials :> Obj(a @@ b @@ c)) :
        a \in Opt(K_access, {Str(AccessKey), Num(7)}),
        b \in Opt(K_body_hash, {Str(Secret1)}),
        c \in Opt(K_headers, HeadersVals \cup {Str(Bob)})}

TokenDocs ==
    { Obj(K_token :> Obj(K_catalog :> Arr(<<Str(Bob), Num(1)>>) @@ K_id :> Str(Secret1))),
      Obj(K_token :> Obj(K_catalog :> Null)),
      Obj(K_token :> Obj(K_id :> Str(Secret1))),
      Obj(K_token :> Str(Bob)),
      Obj(K_token :> Obj(K_user :> Obj(K_name :> Str(Bob)))) }

OtherDocs ==
    { Obj(EmptyMap), Obj(K_auth :> Str(Secret1)), Obj(K_credentials :> Null),
      Obj(K_name :> Str(<<"a", "&", "b">>)),
      Obj(K_password :> Str(Secret1)),
      Arr(<<>>), Arr(<<Obj(K_auth :> Obj(K_token :> Obj(K_id :> Str(Secret1))))>>),
      Str(Secret1), Num(3), Null }

Docs == AuthDocs \cup CredDocs \cup TokenDocs \cup OtherDocs

\* texts that are not JSON
Malformed ==
    { <<>>, <<"{">>, <<"{", "\"", "a", "\"", ":">>, <<"x", "y">>,
      <<"{", "\"", "a", "\"", ":", "1", ",", "}">> }

\* json.Unmarshal, as the inverse of the two encoders over the values of the
\* model: a text decodes to the value either encoder writes as that text.
JSONValues == Docs \cup {IF d.t = "obj" THEN Obj(MaskFields(d.o)) ELSE d : d \in Docs}
Encodings == {<<Compact(d), d>> : d \in JSONValues} \cup {<<MarshalIndent(d), d>> : d \in JSONValues}
Unmarshal(raw) ==
    IF \E e \in Encodings : e[1] = raw
    THEN [ok |-> TRUE, v |-> (CHOOSE e \in Encodings : e[1] = raw)[2]]
    ELSE [ok |-> FALSE, v |-> Null]

\* client.go:295-370.  MarshalIndent cannot fail on a value Unmarshal built,
\* so the two "unable to re-marshal" returns are not reachable.
FormatJSON(raw) ==
    LET r == Unmarshal(raw) IN
    IF ~r.ok THEN [text |-> raw, err |-> "unable to parse JSON"]
    ELSE IF r.v.t # "obj" THEN [text |-> MarshalIndent(r.v), err |-> "nil"]
    ELSE [text |-> MarshalIndent(Obj(MaskFields(r.v.o))), err |-> "nil"]

RawBodies == {Compact(d) : d \in Docs} \cup Malformed

NoResult == [text |-> <<>>, err |-> "none"]


(***************************************************************************)
(* Header masking (pkg/client.go:64-150).                                  *)
(***************************************************************************)
H_x_auth_token == <<"x","-","a","u","t","h","-","t","o","k","e","n">>
H_x_auth_key == <<"x","-","a","u","t","h","-","k","e","y">>
H_x_service_token == <<"x","-","s","e","r","v","i","c","e","-","t","o","k","e","n">>
H_x_storage_token == <<"x","-","s","t","o","r","a","g","e","-","t","o","k","e","n">>
H_temp_url_key == <<"-","m","e","t","a","-","t","e","m","p","-","u","r","l","-","k","e","y">>
H_x_account == <<"x","-","a","c","c","o","u","n","t">>
H_x_container == <<"x","-","c","o","n","t","a","i","n","e","r">>
H_set_cookie == <<"s","e","t","-","c","o","o","k","i","e">>
H_x_subject_token == <<"x","-","s","u","b","j","e","c","t","-","t","o","k","e","n">>
H_authorization == <<"a","u","t","h","o","r","i","z","a","t","i","o","n">>

\* client.go:64-76
defaultSensitiveHeaders ==
    { H_x_auth_token, H_x_auth_key, H_x_service_token, H_x_storage_token,
      H_x_account \o H_temp_url_key, H_x_account \o H_temp_url_key \o <<"-", "2">>,
      H_x_container \o H_temp_url_key, H_x_container \o H_temp_url_key \o <<"-", "2">>,
      H_set_cookie, H_x_subject_token, H_authorization }

\* rt.maskHeaders: a nil pointer, or a pointer to the map SetSensitiveHeaders built
NilMask == [set |-> FALSE, names |-> {}]

\* client.go:92-101: the names become the keys of the new map, as given
SetSensitiveHeaders(names) == [set |-> TRUE, names |-> names]

\* client.go:124-128
MaskSetOf(mh) == IF mh.set THEN mh.names ELSE defaultSensitiveHeaders

\* faulty variant: the name is looked up as written
HeaderLine_CaseSensitive(mh, header, data) ==
    IF header \in MaskSetOf(mh)
    THEN header \o <<":", " ">> \o MaskText
    ELSE header \o <<":", " ">> \o Join(data, <<" ">>)

\* client.go:131-136: one header's line
HeaderLine(mh, header, data) ==
    IF ToLower(header) \in MaskSetOf(mh)
    THEN header \o <<":", " ">> \o MaskText
    ELSE header \o <<":", " ">> \o Join(data, <<" ">>)

\* client.go:119-141: the lines, in the order the map iteration gives them;
\* formatHeaders sorts them, so they are kept as a collection
hideSensitiveHeadersData(mh, headers) ==
    {HeaderLine(mh, h, headers[h]) : h \in DOMAIN headers}

\* client.go:145-150
formatHeaders(mh, headers, separator) ==
    Join(SortStrings(hideSensitiveHeadersData(mh, headers)), separator)

\* the header names and values the model logs
N_X_Auth_Key == <<"X","-","A","u","t","h","-","K","e","y">>
N_Set_Cookie == <<"S","e","t","-","C","o","o","k","i","e">>
N_Accept == <<"A","c","c","e","p","t">>
LoggedNames == {N_X_Auth_Key, H_x_auth_key, N_Set_Cookie, N_Accept}
ConfigNames == {N_X_Auth_Key, H_x_auth_key, H_set_cookie}
HeaderData == {<<Secret1>>, <<Bob, Secret1>>}
HeaderMaps == UNION {[D -> HeaderData] : D \in SUBSET LoggedNames}

NL == <<"\n">>

\* whether `line` is one of the lines of a text joined with "\n"
HasLine(text, line) == Contains(NL \o text \o NL, NL \o line \o NL)

(***************************************************************************)
(* RoundTrip (pkg/client.go:153-272).                                      *)
(*                                                                         *)
(* A body is a stream: its bytes, how many have been read, the position    *)
(* at which reading fails (NoFail: never), and whether Close was called.   *)
(* The underlying transport rt.Rt is the environment: each delegation      *)
(* picks what it does with the request body and what it returns.           *)
(***************************************************************************)
MaxRetriesBound == 2

NoFail == 0 - 1
StreamIds == {"reqOrig", "reqCopy", "respOrig", "respCopy"}
NoStream == [made |-> FALSE, data |-> <<>>, pos |-> 0, failAt |-> NoFail, closed |-> FALSE, nop |-> FALSE]
NewStream(data, failAt) ==
    [made |-> TRUE, data |-> data, pos |-> 0, failAt |-> failAt, closed |-> FALSE, nop |-> FALSE]
\* ioutil.NopCloser(strings.NewReader(text)): Close does nothing
NopCloser(text) ==
    [made |-> TRUE, data |-> text, pos |-> 0, failAt |-> NoFail, closed |-> FALSE, nop |-> TRUE]

\* Close on a stream
CloseStream(st) == IF st.nop THEN st ELSE [st EXCEPT !.closed = TRUE]

Min(a, b) == IF a < b THEN a ELSE b

\* the bytes a reader gets from a stream before end of file or the failure
Readable(st) ==
    IF st.closed THEN <<>>
    ELSE SubSeq(st.data, st.pos + 1,
                IF st.failAt = NoFail THEN Len(st.data) ELSE Min(st.failAt, Len(st.data)))

\* faulty variant: the read error of the drain is dropped
DrainFails_Ignored(st) == FALSE

\* io.Copy(&bs, original): everything up to end of file or the read error
DrainFails(st) == st.failAt # NoFail
Drained(st) == [st EXCEPT !.pos = st.pos + Len(Readable(st))]

\* error values: the message, and for the "retries exhausted" error the
\* message of the error it was built from
NoErr == [msg |-> "nil", last |-> ""]
ErrRead == [msg |-> "unexpected EOF", last |-> ""]
ErrDial == [msg |-> "dial tcp: connection refused", last |-> ""]
ErrTimeout == [msg |-> "net/http: timeout awaiting response headers", last |-> ""]
ErrRtNil == [msg |-> "Rt RoundTripper is nil, aborting", last |-> ""]
\* client.go:200
ErrExhausted(err) ==
    [msg |-> "Connection error, retries exhausted. Aborting. Last error was: %s", last |-> err.msg]

\* content types
N_Content_Type == <<"C","o","n","t","e","n","t","-","T","y","p","e">>
CT_application == <<"a","p","p","l","i","c","a","t","i","o","n","/">>
CT_json == CT_application \o <<"j","s","o","n">>
CT_json_patch == CT_application \o <<"x","-","j","s","o","n","-","p","a","t","c","h">>
CT_text == <<"t","e","x","t","/","p","l","a","i","n">>

\* http.Header.Get
HeaderGet(h, key) == IF key \in DOMAIN h /\ Len(h[key]) > 0 THEN h[key][1] ELSE <<>>

\* client.go:225: the request bodies logRequest intercepts
RequestIsJSON(contentType) ==
    \/ HasPrefix(contentType, CT_json)
    \/ (HasPrefix(contentType, CT_application) /\ HasSuffix(contentType, <<"-","j","s","o","n","-","p","a","t","c","h">>))

\* client.go:250: the response bodies logResponse intercepts
ResponseIsJSON(contentType) == HasPrefix(contentType, CT_json)

\* one call on the ILogger
LogEntry(dir, what, n, err, text) == [dir |-> dir, what |-> what, n |-> n, err |-> err, text |-> text]
ReqLog(what, text) == LogEntry("->", what, 0, "", text)
RespLog(what, n, err, text) == LogEntry("<-", what, n, err, text)

\* client.go:234-238: the entries logRequest writes for the drained bytes
RequestBodyLog(bs) ==
    LET f == FormatJSON(bs) IN
    (IF f.err # "nil" THEN <<LogEntry("->", "Error", 0, f.err, <<>>)>> ELSE <<>>)
    \o <<ReqLog("Body", f.text)>>

\* client.go:259-265: the entries logResponse writes for the drained bytes
ResponseBodyLog(bs) ==
    LET f == FormatJSON(bs) IN
    (IF f.err # "nil" THEN <<LogEntry("<-", "Error", 0, f.err, <<>>)>> ELSE <<>>)
    \o (IF f.text # <<>> THEN <<RespLog("Body", 0, "", f.text)>> ELSE <<>>)

\* faulty variant: the formatted (masked) text is handed on
Rebuffered_Formatted(bs) == NopCloser(FormatJSON(bs).text)

\* client.go:240 and 267: the stream handed on after a body was drained
Rebuffered(bs) == NopCloser(bs)

\* faulty variant: no deferred close
DeferredClose_Missing(req, streams) == streams

\* client.go:154-158: the deferred close of whatever request.Body is at return
DeferredClose(req, streams) ==
    IF req.Body = "nil" THEN streams
    ELSE [streams EXCEPT ![req.Body] = CloseStream(streams[req.Body])]

\* client.go:196: the loop gives up
RetriesExhausted(retry, maxRetries) == retry > maxRetries

NoResponse == [nil |-> TRUE, StatusCode |-> 0, Header |-> EmptyMap, Body |-> "nil"]
NotReturned == [returned |-> FALSE, response |-> NoResponse, err |-> NoErr]

\* the configurations and requests of the model
ExtraHeaders == {N_X_Auth_Key :> <<Secret1>>, N_Content_Type :> <<CT_json>>}
RTConfigs ==
    [Logger : BOOLEAN, RtNil : BOOLEAN, MaxRetries : 0..MaxRetriesBound,
     headersSet : BOOLEAN, headers : {EmptyMap}]
    \cup [Logger : BOOLEAN, RtNil : {FALSE}, MaxRetries : {1},
          headersSet : {TRUE}, headers : ExtraHeaders]

AuthBody == Compact(Obj(K_auth :> Obj(K_passwordCredentials :> Obj(K_password :> Str(Secret1)))))
TokenBody == Compact(Obj(K_token :> Obj(K_catalog :> Arr(<<Str(Bob), Num(1)>>) @@ K_id :> Str(Secret1))))
BrokenBody == <<"{", "\"", "a", "\"", ":">>
PlainBody == <<"x", "y">>

\* what a caller may pass: the headers, and the body with its read failure
RTRequests ==
    { [Header |-> EmptyMap, body |-> FALSE, data |-> <<>>, failAt |-> NoFail],
      [Header |-> N_Content_Type :> <<CT_json>>, body |-> TRUE, data |-> AuthBody, failAt |-> NoFail],
      [Header |-> N_Content_Type :> <<CT_json>>, body |-> TRUE, data |-> AuthBody, failAt |-> 2],
      [Header |-> N_Content_Type :> <<CT_json>>, body |-> TRUE, data |-> BrokenBody, failAt |-> NoFail],
      [Header |-> N_Content_Type :> <<CT_json_patch>>, body |-> TRUE, data |-> AuthBody, failAt |-> NoFail],
      [Header |-> N_Content_Type :> <<CT_text>> @@ N_X_Auth_Key :> <<Bob>>, body |-> TRUE,
       data |-> PlainBody, failAt |-> NoFail] }

\* what the underlying transport may return with a response
Responses ==
    { [StatusCode |-> 200, ct |-> CT_json, data |-> TokenBody, failAt |-> NoFail, err |-> NoErr],
      [StatusCode |-> 401, ct |-> CT_json, data |-> BrokenBody, failAt |-> NoFail, err |-> NoErr],
      [StatusCode |-> 500, ct |-> CT_text, data |-> PlainBody, failAt |-> NoFail, err |-> NoErr],
      [StatusCode |-> 200, ct |-> CT_json, data |-> TokenBody, failAt |-> 3, err |-> NoErr],
      [StatusCode |-> 200, ct |-> CT_json, data |-> <<>>, failAt |-> NoFail, err |-> NoErr],
      [StatusCode |-> 200, ct |-> CT_json_patch, data |-> TokenBody, failAt |-> 1, err |-> NoErr],
      [StatusCode |-> 401, ct |-> CT_json, data |-> TokenBody, failAt |-> NoFail, err |-> ErrTimeout] }

\* what the underlying transport does with the request body during one
\* delegation: leaves it, reads one byte, or reads it all; and whether it
\* has closed it by the time it returns
BodyUses == {"none", "one", "all"} \X BOOLEAN

UseBody(st, use) ==
    LET n == IF use[1] = "none" THEN 0
             ELSE IF use[1] = "one" THEN Min(1, Len(Readable(st)))
             ELSE Len(Readable(st))
        read == [st EXCEPT !.pos = st.pos + n]
    IN IF use[2] THEN CloseStream(read) ELSE read

\* one delegation ort.RoundTrip(request) (client.go:191 and 207): the
\* transport uses the body and returns no response and an error, or a response
Delegate(out, use) ==
    LET body == rtReq.Body
        seen == IF body = "nil" THEN <<>> ELSE Readable(rtStreams[body])
        used == IF body = "nil" THEN rtStreams
                ELSE [rtStreams EXCEPT ![body] = UseBody(rtStreams[body], use)]
    IN /\ rtCalls' = Append(rtCalls, [payload |-> seen, nil |-> out.nil, err |-> out.err])
       /\ rtErr' = out.err
       /\ IF out.nil
          THEN /\ rtResp' = NoResponse
               /\ rtStreams' = used
          ELSE /\ rtResp' = [nil |-> FALSE, StatusCode |-> out.r.StatusCode,
                             Header |-> N_Content_Type :> <<out.r.ct>>, Body |-> "respOrig"]
               /\ rtStreams' = [used EXCEPT !["respOrig"] = NewStream(out.r.data, out.r.failAt)]

NoAnswer == [StatusCode |-> 0, ct |-> <<>>, data |-> <<>>, failAt |-> NoFail, err |-> NoErr]
Outcomes ==
    {[nil |-> TRUE, err |-> e, r |-> NoAnswer] : e \in {ErrDial, ErrTimeout}}
    \cup {[nil |-> FALSE, err |-> r.err, r |-> r] : r \in Responses}

\* `return response, err`, with the deferred close
Return(resp, err, req, streams) ==
    /\ rtResult' = [returned |-> TRUE, response |-> resp, err |-> err]
    /\ rtStreams' = DeferredClose(req, streams)
    /\ rtPc' = "returned"

(***************************************************************************)
(* The command in its latest form (src/unnamed/part_001): single-shot or   *)
(* continuous load.  Goroutines running auth are anonymous, so they are    *)
(* kept as a count for every position they can be in.                      *)
(***************************************************************************)
\* -threads values tried: single-shot, a limiter of one, and five
ThreadCounts == {0, 1, 5}
\* goroutines the dispatch loop starts, and reports the reporter writes
MaxAttempts == 2
MaxTicks == 2

\* what pkg.OpenStackEC2Auth returns to auth: a result, or one of these errors
AuthErrors == {"url.Error", "ErrDefault401"}

\* part_001:124-129: *url.Error is tallied under its inner error, any other
\* error under its Go type
ErrTypeOf(err) ==
    IF err = "url.Error" THEN "connection refused" ELSE "gophercloud.ErrDefault401"
ErrTypes == {ErrTypeOf(e) : e \in AuthErrors}

\* positions of a goroutine in auth (part_001:114-149)
\*   ops: started, before atomic.AddUint64(ops, 1)      (line 115)
\*   call: in pkg.OpenStackEC2Auth                       (line 116)
\*   lock: before lck.Lock()                             (line 130)
\*   tally: holds lck, before errs[errType] += 1         (line 131)
\*   recv: before <-limiter                              (lines 134, 148)
\*   done: returned
\* lim: the limiter argument is not nil.  err: the error of the call while
\* auth still uses it, then only whether there was one.
W(pc, lim, err) == [pc |-> pc, lim |-> lim, err |-> err]
WorkerStates ==
    {W(pc, lim, "nil") : pc \in {"ops", "call", "done"}, lim \in BOOLEAN}
    \cup {W(pc, TRUE, e) : pc \in {"lock", "tally"}, e \in AuthErrors}
    \cup {W(pc, TRUE, e) : pc \in {"recv", "done"}, e \in {"nil", "failed"}}
    \cup {W("done", FALSE, "failed")}
NoWorkers == [w \in WorkerStates |-> 0]

\* one goroutine moves from state a to state b
Step(a, b) ==
    /\ workers[a] > 0
    /\ workers' = [w \in WorkerStates |->
                     workers[w] - (IF w = a THEN 1 ELSE 0) + (IF w = b THEN 1 ELSE 0)]

SumOver(f, S) == BagCardinality([x \in {y \in S : f[y] > 0} |-> f[x]])

\* goroutines started by the dispatch loop
Dispatched == SumOver(workers, {w \in WorkerStates : w.lim})
\* ... that have not yet received from the limiter
InFlight == SumOver(workers, {w \in WorkerStates : w.lim /\ w.pc # "done"})
\* attempts that have returned, and those of them that failed
Completed == workers[W("done", TRUE, "nil")] + workers[W("done", TRUE, "failed")]
CompletedFailed == workers[W("done", TRUE, "failed")]

\* a send on a buffered channel proceeds while the buffer has room
ChanCanSend_Unbounded(len, cap) == TRUE
ChanCanSend(len, cap) == len < cap

\* atomic.SwapUint64(p, 0): the new value of *p
SwapZero_Keeps(old) == old
SwapZero(old) == 0

\* atomic.AddUint64(p, delta): the new value of *p
AddUint64_Stores(old, delta) == delta
AddUint64(old, delta) == old + delta

\* part_001:164-171: the integer percentage, 0 when nothing was attempted
Percent_Swapped(f, s) == IF f > 0 THEN (100 * s) \div f ELSE 0
Percent(f, s) == IF s > 0 THEN (100 * f) \div s ELSE 0

\* faulty variant: nothing reaches standard output
Println_Dropped(out, text) == out

\* part_001:144: fmt.Println(res.TokenID)
Println(out, text) == Append(out, text)

Running == exit.code = 0 - 1
NoExit == [code |-> 0 - 1, stdout |-> <<>>, errPrinted |-> FALSE]
RepOff == [pc |-> "off", f |-> 0, s |-> 0]
Unlocked == [writer |-> FALSE, readers |-> 0]

LoadIdle ==
    /\ threads = 0 /\ debug = FALSE /\ showErr = FALSE /\ failAll = FALSE /\ mainPc = "idle"
    /\ limiter = 0 /\ workers = NoWorkers /\ ops = 0 /\ fps = 0
    /\ totalReq = 0 /\ totalErr = 0 /\ errs = [t \in ErrTypes |-> 0]
    /\ lck = Unlocked /\ rep = RepOff /\ lines = <<>> /\ exit = NoExit

(***************************************************************************)
(* pkg.OpenStackEC2Auth (pkg/main.go:16-44).  What ec2tokens.Create and    *)
(* the three extractions give is the input: an error or "nil" for each     *)
(* step, the user and project (NoName: a nil pointer) and the token ID.    *)
(***************************************************************************)
NoName == "<nil>"
NilResult == [nil |-> TRUE, Username |-> "", Project |-> "", TokenID |-> ""]
AuthResult(user, project, tokenID) ==
    [nil |-> FALSE, Username |-> user, Project |-> project, TokenID |-> tokenID]

\* faulty variant: the project is extracted before the user
OpenStackEC2Auth_ProjectFirst(in) ==
    IF in.createErr # "nil" THEN [res |-> NilResult, err |-> in.createErr]
    ELSE IF in.projectErr # "nil" THEN [res |-> NilResult, err |-> in.projectErr]
    ELSE IF in.project = NoName THEN [res |-> NilResult, err |-> "empty project scope"]
    ELSE IF in.userErr # "nil" THEN [res |-> NilResult, err |-> in.userErr]
    ELSE IF in.user = NoName THEN [res |-> NilResult, err |-> "empty user"]
    ELSE IF in.tokenErr # "nil" THEN [res |-> NilResult, err |-> in.tokenErr]
    ELSE [res |-> AuthResult(in.user, in.project, in.tokenID), err |-> "nil"]

\* pkg/main.go:16-44
OpenStackEC2Auth(in) ==
    IF in.createErr # "nil" THEN [res |-> NilResult, err |-> in.createErr]
    ELSE IF in.userErr # "nil" THEN [res |-> NilResult, err |-> in.userErr]
    ELSE IF in.user = NoName THEN [res |-> NilResult, err |-> "empty user"]
    ELSE IF in.projectErr # "nil" THEN [res |-> NilResult, err |-> in.projectErr]
    ELSE IF in.project = NoName THEN [res |-> NilResult, err |-> "empty project scope"]
    ELSE IF in.tokenErr # "nil" THEN [res |-> NilResult, err |-> in.tokenErr]
    ELSE [res |-> AuthResult(in.user, in.project, in.tokenID), err |-> "nil"]

\* what the calls into gophercloud may give
CreateResults ==
    [createErr : {"nil", "connection refused", "Expected HTTP response code [200]"},
     userErr : {"nil", "user: cannot unmarshal"},
     user : {NoName, "bob"},
     projectErr : {"nil", "project: cannot unmarshal"},
     project : {NoName, "demo"},
     tokenErr : {"nil", "token: header error"},
     tokenID : {"", "gAAAA"}]

NoCreateResult ==
    [createErr |-> "nil", userErr |-> "nil", user |-> NoName, projectErr |-> "nil",
     project |-> NoName, tokenErr |-> "nil", tokenID |-> ""]
NotCalled == [res |-> NilResult, err |-> "not called"]
EC2AuthIdle == ecPc = "idle" /\ ecIn = NoCreateResult /\ ecOut = NotCalled

(***************************************************************************)
(* The parts of the program are checked one at a time: each specification  *)
(* below runs one part and leaves the variables of the others idle.        *)
(***************************************************************************)
JSONIdle == jsPc = "idle" /\ jsRaw = <<>> /\ jsOut = NoResult

HdrIdle == hdrPc = "idle" /\ maskHeaders = NilMask /\ hdrIn = EmptyMap /\ hdrOut = <<>>

RTIdle ==
    /\ rtPc = "idle" /\ rtCfg = [Logger |-> FALSE, RtNil |-> FALSE, MaxRetries |-> 0,
                                headersSet |-> FALSE, headers |-> EmptyMap]
    /\ rtReq = [Header |-> EmptyMap, Body |-> "nil"]
    /\ rtStreams = [i \in StreamIds |-> NoStream]
    /\ rtRetry = 0 /\ rtResp = NoResponse /\ rtErr = NoErr
    /\ rtCalls = <<>> /\ rtLog = <<>> /\ rtResult = NotReturned

(***************************************************************************)
(* FormatJSON on one body.                                                 *)
(***************************************************************************)
\* a caller hands one body to FormatJSON
JSONInit ==
    /\ jsPc = "call"
    /\ jsRaw \in RawBodies
    /\ jsOut = NoResult
    /\ HdrIdle /\ RTIdle /\ LoadIdle /\ EC2AuthIdle

JSONFormat ==
    /\ jsPc = "call"
    /\ jsOut' = FormatJSON(jsRaw)
    /\ jsPc' = "done"
    /\ UNCHANGED <<jsRaw, hdrVars, rtVars, loadVars, authVars>>

JSONNext == JSONFormat

JSONSpec == JSONInit /\ [][JSONNext]_vars

(***************************************************************************)
(* SetSensitiveHeaders and formatHeaders on one header map.                *)
(***************************************************************************)
HdrInit ==
    /\ hdrPc = "config"
    /\ maskHeaders = NilMask
    /\ hdrIn \in HeaderMaps
    /\ hdrOut = <<>>
    /\ JSONIdle /\ RTIdle /\ LoadIdle /\ EC2AuthIdle

\* the program configures the transport (any number of times) ...
HdrSetSensitive ==
    /\ hdrPc = "config"
    /\ \E names \in SUBSET ConfigNames : maskHeaders' = SetSensitiveHeaders(names)
    /\ UNCHANGED <<hdrPc, hdrIn, hdrOut, jsVars, rtVars, loadVars, authVars>>

\* ... and a round trip logs the headers
HdrFormat ==
    /\ hdrPc = "config"
    /\ hdrOut' = formatHeaders(maskHeaders, hdrIn, NL)
    /\ hdrPc' = "done"
    /\ UNCHANGED <<maskHeaders, hdrIn, jsVars, rtVars, loadVars, authVars>>

HdrNext == HdrSetSensitive \/ HdrFormat

HdrSpec == HdrInit /\ [][HdrNext]_vars


(***************************************************************************)
(* One RoundTrip call.                                                     *)
(***************************************************************************)
\* a caller builds a request and calls RoundTrip on a configured RoundTripper
RTInit ==
    /\ rtPc = "start"
    /\ rtCfg \in RTConfigs
    /\ \E q \in RTRequests :
          /\ rtReq = [Header |-> q.Header, Body |-> IF q.body THEN "reqOrig" ELSE "nil"]
          /\ rtStreams = [i \in StreamIds |->
                            IF i = "reqOrig" /\ q.body THEN NewStream(q.data, q.failAt) ELSE NoStream]
    /\ rtRetry = 0 /\ rtResp = NoResponse /\ rtErr = NoErr
    /\ rtCalls = <<>> /\ rtLog = <<>> /\ rtResult = NotReturned
    /\ JSONIdle /\ HdrIdle /\ LoadIdle /\ EC2AuthIdle

\* client.go:164-184: set the extra headers, log the request, intercept its body
RTBegin ==
    /\ rtPc = "start"
    /\ LET hdr == IF rtCfg.headersSet
                  THEN [k \in DOMAIN rtReq.Header \cup DOMAIN rtCfg.headers |->
                          IF k \in DOMAIN rtCfg.headers THEN rtCfg.headers[k] ELSE rtReq.Header[k]]
                  ELSE rtReq.Header
           ct == HeaderGet(hdr, N_Content_Type)
           head == <<ReqLog("URL", <<>>), ReqLog("Headers", formatHeaders(maskHeaders, hdr, NL))>>
           orig == rtStreams[rtReq.Body]
       IN
       IF ~rtCfg.Logger \/ rtReq.Body = "nil"
       THEN /\ rtReq' = [rtReq EXCEPT !.Header = hdr]
            /\ rtLog' = IF rtCfg.Logger THEN head ELSE <<>>
            /\ rtPc' = "delegate"
            /\ UNCHANGED <<rtStreams, rtResult>>
       ELSE IF ~RequestIsJSON(ct)
       THEN /\ rtReq' = [rtReq EXCEPT !.Header = hdr]
            /\ rtLog' = Append(head, ReqLog("NotJSON", <<>>))
            /\ rtPc' = "delegate"
            /\ UNCHANGED <<rtStreams, rtResult>>
       ELSE IF DrainFails(orig)
       THEN \* logRequest returns (nil, err): request.Body is nil from here on
            /\ rtReq' = [Header |-> hdr, Body |-> "nil"]
            /\ rtLog' = head
            /\ Return(NoResponse, ErrRead, rtReq',
                      [rtStreams EXCEPT ![rtReq.Body] = CloseStream(Drained(orig))])
       ELSE /\ rtReq' = [Header |-> hdr, Body |-> "reqCopy"]
            /\ rtLog' = head \o RequestBodyLog(Readable(orig))
            /\ rtStreams' = [rtStreams EXCEPT ![rtReq.Body] = CloseStream(Drained(orig)),
                                              !["reqCopy"] = Rebuffered(Readable(orig))]
            /\ rtPc' = "delegate"
            /\ UNCHANGED rtResult
    /\ UNCHANGED <<rtCfg, rtRetry, rtResp, rtErr, rtCalls, jsVars, hdrVars, loadVars, authVars>>

\* client.go:187-194: the first delegation
RTDelegate ==
    /\ rtPc = "delegate"
    /\ IF rtCfg.RtNil
       THEN /\ Return(NoResponse, ErrRtNil, rtReq, rtStreams)
            /\ UNCHANGED <<rtResp, rtErr, rtCalls, rtRetry>>
       ELSE /\ \E out \in Outcomes, use \in BodyUses : Delegate(out, use)
            /\ rtRetry' = 1
            /\ rtPc' = "loop"
            /\ UNCHANGED rtResult
    /\ UNCHANGED <<rtCfg, rtReq, rtLog, jsVars, hdrVars, loadVars, authVars>>

\* client.go:195-202: no response and no retry left
RTExhausted ==
    /\ rtPc = "loop"
    /\ rtResp.nil
    /\ RetriesExhausted(rtRetry, rtCfg.MaxRetries)
    /\ rtLog' = IF rtCfg.Logger THEN Append(rtLog, RespLog("exhausted", 0, "", <<>>)) ELSE rtLog
    /\ Return(NoResponse, ErrExhausted(rtErr), rtReq, rtStreams)
    /\ UNCHANGED <<rtCfg, rtReq, rtRetry, rtResp, rtErr, rtCalls, jsVars, hdrVars, loadVars, authVars>>

\* faulty variant: the loop also goes on when a response came with an error
RTRetry_OnError ==
    /\ rtPc = "loop"
    /\ (rtResp.nil \/ rtErr # NoErr)
    /\ ~RetriesExhausted(rtRetry, rtCfg.MaxRetries)
    /\ rtLog' = IF rtCfg.Logger THEN Append(rtLog, RespLog("retry", rtRetry, rtErr.msg, <<>>)) ELSE rtLog
    /\ \E out \in Outcomes, use \in BodyUses : Delegate(out, use)
    /\ rtRetry' = rtRetry + 1
    /\ UNCHANGED <<rtPc, rtCfg, rtReq, rtResult, jsVars, hdrVars, loadVars, authVars>>

\* client.go:204-208: no response, one more delegation
RTRetry ==
    /\ rtPc = "loop"
    /\ rtResp.nil
    /\ ~RetriesExhausted(rtRetry, rtCfg.MaxRetries)
    /\ rtLog' = IF rtCfg.Logger THEN Append(rtLog, RespLog("retry", rtRetry, rtErr.msg, <<>>)) ELSE rtLog
    /\ \E out \in Outcomes, use \in BodyUses : Delegate(out, use)
    /\ rtRetry' = rtRetry + 1
    /\ UNCHANGED <<rtPc, rtCfg, rtReq, rtResult, jsVars, hdrVars, loadVars, authVars>>

\* client.go:211-218: log the response, intercept its body, return
RTRespond ==
    /\ rtPc = "loop"
    /\ ~rtResp.nil
    /\ LET ct == HeaderGet(rtResp.Header, N_Content_Type)
           head == <<RespLog("Code", rtResp.StatusCode, "", <<>>),
                     RespLog("Headers", 0, "", formatHeaders(maskHeaders, rtResp.Header, NL))>>
           orig == rtStreams[rtResp.Body]
       IN
       IF ~rtCfg.Logger
       THEN /\ Return(rtResp, rtErr, rtReq, rtStreams)
            /\ UNCHANGED <<rtResp, rtErr, rtLog>>
       ELSE IF ~ResponseIsJSON(ct)
       THEN /\ rtLog' = rtLog \o head \o <<RespLog("NotJSON", 0, "", <<>>)>>
            /\ rtErr' = NoErr
            /\ Return(rtResp, NoErr, rtReq, rtStreams)
            /\ UNCHANGED rtResp
       ELSE IF DrainFails(orig)
       THEN \* logResponse returns (nil, err): response.Body is nil
            /\ rtLog' = rtLog \o head
            /\ rtErr' = ErrRead
            /\ rtResp' = [rtResp EXCEPT !.Body = "nil"]
            /\ Return(rtResp', ErrRead, rtReq,
                      [rtStreams EXCEPT ![rtResp.Body] = CloseStream(Drained(orig))])
       ELSE /\ rtLog' = rtLog \o head \o ResponseBodyLog(Readable(orig))
            /\ rtErr' = NoErr
            /\ rtResp' = [rtResp EXCEPT !.Body = "respCopy"]
            /\ Return(rtResp', NoErr, rtReq,
                      [rtStreams EXCEPT ![rtResp.Body] = CloseStream(Drained(orig)),
                                        !["respCopy"] = Rebuffered(Readable(orig))])
    /\ UNCHANGED <<rtCfg, rtReq, rtRetry, rtCalls, jsVars, hdrVars, loadVars, authVars>>

RTNext == RTBegin \/ RTDelegate \/ RTExhausted \/ RTRetry \/ RTRespond

RTSpec == RTInit /\ [][RTNext]_vars

(***************************************************************************)
(* The command (src/unnamed/part_001:108-189).                             *)
(***************************************************************************)
\* flags parsed, provider and client built; the endpoint either fails every
\* call (failAll) or answers as it likes
Init ==
    /\ threads \in ThreadCounts
    /\ debug = FALSE    \* read at part_001:138 only, to log two more lines
    /\ showErr \in BOOLEAN
    /\ failAll \in BOOLEAN
    /\ mainPc = "start"
    /\ limiter = 0 /\ workers = NoWorkers /\ ops = 0 /\ fps = 0
    /\ totalReq = 0 /\ totalErr = 0 /\ errs = [t \in ErrTypes |-> 0]
    /\ lck = Unlocked /\ rep = RepOff /\ lines = <<>> /\ exit = NoExit
    /\ JSONIdle /\ HdrIdle /\ RTIdle /\ EC2AuthIdle

others == <<jsVars, hdrVars, rtVars, authVars>>

\* part_001:151-152: threads == 0, main runs auth(nil) itself
MainSingle ==
    /\ Running /\ mainPc = "start" /\ threads = 0
    /\ workers' = [workers EXCEPT ![W("ops", FALSE, "nil")] = @ + 1]
    /\ mainPc' = "single"
    /\ UNCHANGED <<threads, debug, showErr, failAll, limiter, ops, fps, totalReq, totalErr,
                   errs, lck, rep, lines, exit, others>>

\* part_001:153: auth(nil) has returned, os.Exit(0)
MainSingleExit ==
    /\ Running /\ mainPc = "single"
    /\ workers[W("done", FALSE, "nil")] > 0
    /\ exit' = [exit EXCEPT !.code = 0]
    /\ mainPc' = "exited"
    /\ UNCHANGED <<threads, debug, showErr, failAll, limiter, workers, ops, fps, totalReq,
                   totalErr, errs, lck, rep, lines, others>>

\* part_001:156 and 185: the reporter goroutine starts, the limiter is made
MainContinuous ==
    /\ Running /\ mainPc = "start" /\ threads > 0
    /\ rep' = [rep EXCEPT !.pc = "wait"]
    /\ mainPc' = "send"
    /\ UNCHANGED <<threads, debug, showErr, failAll, limiter, workers, ops, fps, totalReq,
                   totalErr, errs, lck, lines, exit, others>>

\* part_001:187: limiter <- struct{}{} blocks while the channel is full
MainSend ==
    /\ Running /\ mainPc = "send"
    /\ Dispatched < MaxAttempts
    /\ ChanCanSend(limiter, threads)
    /\ limiter' = limiter + 1
    /\ mainPc' = "go"
    /\ UNCHANGED <<threads, debug, showErr, failAll, workers, ops, fps, totalReq, totalErr,
                   errs, lck, rep, lines, exit, others>>

\* part_001:188: go auth(limiter)
MainGo ==
    /\ Running /\ mainPc = "go"
    /\ workers' = [workers EXCEPT ![W("ops", TRUE, "nil")] = @ + 1]
    /\ mainPc' = "send"
    /\ UNCHANGED <<threads, debug, showErr, failAll, limiter, ops, fps, totalReq, totalErr,
                   errs, lck, rep, lines, exit, others>>

\* faulty variant: the call starts without the increment of ops
AuthOps_Uncounted ==
    /\ Running
    /\ \E lim \in BOOLEAN : Step(W("ops", lim, "nil"), W("call", lim, "nil"))
    /\ UNCHANGED <<threads, debug, showErr, failAll, mainPc, limiter, ops, fps, totalReq,
                   totalErr, errs, lck, rep, lines, exit, others>>

\* part_001:115: atomic.AddUint64(ops, 1), then the call starts
AuthOps ==
    /\ Running
    /\ \E lim \in BOOLEAN : Step(W("ops", lim, "nil"), W("call", lim, "nil"))
    /\ ops' = AddUint64(ops, 1)
    /\ UNCHANGED <<threads, debug, showErr, failAll, mainPc, limiter, fps, totalReq, totalErr,
                   errs, lck, rep, lines, exit, others>>

\* part_001:116, 138-148: the call returns a result; in single-shot mode the
\* token is printed and auth returns, otherwise the goroutine goes on to
\* receive from the limiter
AuthSucceeds ==
    /\ Running /\ ~failAll
    /\ \E lim \in BOOLEAN :
          /\ Step(W("call", lim, "nil"), W(IF lim THEN "recv" ELSE "done", lim, "nil"))
          /\ exit' = IF lim THEN exit ELSE [exit EXCEPT !.stdout = Println(@, "token")]
    /\ UNCHANGED <<threads, debug, showErr, failAll, mainPc, limiter, ops, fps, totalReq,
                   totalErr, errs, lck, rep, lines, others>>

\* faulty variant: the failure is not counted in fps
AuthFails_Uncounted ==
    /\ Running
    /\ \E lim \in BOOLEAN, e \in AuthErrors :
          /\ Step(W("call", lim, "nil"),
                  IF ~lim THEN W("done", lim, "failed")
                  ELSE IF showErr THEN W("lock", lim, e) ELSE W("recv", lim, "failed"))
          /\ exit' = IF lim THEN exit ELSE [exit EXCEPT !.code = 1, !.errPrinted = TRUE]
    /\ UNCHANGED <<threads, debug, showErr, failAll, mainPc, limiter, ops, fps, totalReq,
                   totalErr, errs, lck, rep, lines, others>>

\* part_001:116-133: the call returns an error and auth does
\* atomic.AddUint64(fps, 1); single-shot prints the error and exits 1;
\* otherwise on to the tally (showErr) or to the receive
AuthFails ==
    /\ Running
    /\ fps' = AddUint64(fps, 1)
    /\ \E lim \in BOOLEAN, e \in AuthErrors :
          /\ Step(W("call", lim, "nil"),
                  IF ~lim THEN W("done", lim, "failed")
                  ELSE IF showErr THEN W("lock", lim, e) ELSE W("recv", lim, "failed"))
          /\ exit' = IF lim THEN exit ELSE [exit EXCEPT !.code = 1, !.errPrinted = TRUE]
    /\ UNCHANGED <<threads, debug, showErr, failAll, mainPc, limiter, ops, totalReq, totalErr,
                   errs, lck, rep, lines, others>>

\* part_001:130: lck.Lock()
AuthLock ==
    /\ Running
    /\ ~lck.writer /\ lck.readers = 0
    /\ \E e \in AuthErrors : Step(W("lock", TRUE, e), W("tally", TRUE, e))
    /\ lck' = [lck EXCEPT !.writer = TRUE]
    /\ UNCHANGED <<threads, debug, showErr, failAll, mainPc, limiter, ops, fps, totalReq,
                   totalErr, errs, rep, lines, exit, others>>

\* part_001:131-132: errs[errType] += 1; lck.Unlock()
AuthTally ==
    /\ Running
    /\ \E e \in AuthErrors :
          /\ Step(W("tally", TRUE, e), W("recv", TRUE, "failed"))
          /\ errs' = [errs EXCEPT ![ErrTypeOf(e)] = @ + 1]
    /\ lck' = [lck EXCEPT !.writer = FALSE]
    /\ UNCHANGED <<threads, debug, showErr, failAll, mainPc, limiter, ops, fps, totalReq,
                   totalErr, rep, lines, exit, others>>

\* faulty variant: auth returns without receiving from the limiter
AuthRecv_NoReceive ==
    /\ Running
    /\ \E e \in {"nil", "failed"} : Step(W("recv", TRUE, e), W("done", TRUE, e))
    /\ UNCHANGED <<threads, debug, showErr, failAll, mainPc, limiter, ops, fps, totalReq,
                   totalErr, errs, lck, rep, lines, exit, others>>

\* part_001:134 and 148: <-limiter, and auth returns
AuthRecv ==
    /\ Running
    /\ limiter > 0
    /\ \E e \in {"nil", "failed"} : Step(W("recv", TRUE, e), W("done", TRUE, e))
    /\ limiter' = limiter - 1
    /\ UNCHANGED <<threads, debug, showErr, failAll, mainPc, ops, fps, totalReq, totalErr,
                   errs, lck, rep, lines, exit, others>>

\* part_001:159-160: the timer fires; f := atomic.SwapUint64(fps, 0)
RepSwapFps ==
    /\ Running /\ rep.pc = "wait"
    /\ Len(lines) < MaxTicks
    /\ rep' = [rep EXCEPT !.pc = "swapOps", !.f = fps]
    /\ fps' = SwapZero(fps)
    /\ UNCHANGED <<threads, debug, showErr, failAll, mainPc, limiter, workers, ops, totalReq,
                   totalErr, errs, lck, lines, exit, others>>

\* part_001:161: s := atomic.SwapUint64(ops, 0)
RepSwapOps ==
    /\ Running /\ rep.pc = "swapOps"
    /\ rep' = [rep EXCEPT !.pc = "report", !.s = ops]
    /\ ops' = SwapZero(ops)
    /\ UNCHANGED <<threads, debug, showErr, failAll, mainPc, limiter, workers, fps, totalReq,
                   totalErr, errs, lck, lines, exit, others>>

\* part_001:162-173: tS := atomic.AddUint64(totalReq, s); tF :=
\* atomic.AddUint64(totalErr, f); the two percentages and the two lines
RepReport ==
    /\ Running /\ rep.pc = "report"
    /\ totalReq' = AddUint64(totalReq, rep.s)
    /\ totalErr' = AddUint64(totalErr, rep.f)
    /\ lines' = Append(lines, [s |-> rep.s, f |-> rep.f, perc |-> Percent(rep.f, rep.s),
                               tS |-> totalReq', tF |-> totalErr',
                               tPerc |-> Percent(totalErr', totalReq'),
                               errs |-> [t \in ErrTypes |-> 0]])
    /\ rep' = [rep EXCEPT !.pc = IF showErr THEN "rlock" ELSE "wait"]
    /\ UNCHANGED <<threads, debug, showErr, failAll, mainPc, limiter, workers, ops, fps,
                   errs, lck, exit, others>>

\* part_001:175: lck.RLock()
RepRLock ==
    /\ Running /\ rep.pc = "rlock"
    /\ ~lck.writer
    /\ lck' = [lck EXCEPT !.readers = @ + 1]
    /\ rep' = [rep EXCEPT !.pc = "errors"]
    /\ UNCHANGED <<threads, debug, showErr, failAll, mainPc, limiter, workers, ops, fps,
                   totalReq, totalErr, errs, lines, exit, others>>

\* part_001:176-179: one ERROR line per category; lck.RUnlock()
RepErrors ==
    /\ Running /\ rep.pc = "errors"
    /\ lines' = [lines EXCEPT ![Len(lines)].errs = errs]
    /\ lck' = [lck EXCEPT !.readers = @ - 1]
    /\ rep' = [rep EXCEPT !.pc = "wait"]
    /\ UNCHANGED <<threads, debug, showErr, failAll, mainPc, limiter, workers, ops, fps,
                   totalReq, totalErr, errs, exit, others>>

Next ==
    \/ MainSingle \/ MainSingleExit \/ MainContinuous \/ MainSend \/ MainGo
    \/ AuthOps \/ AuthSucceeds \/ AuthFails \/ AuthLock \/ AuthTally \/ AuthRecv
    \/ RepSwapFps \/ RepSwapOps \/ RepReport \/ RepRLock \/ RepErrors

Spec == Init /\ [][Next]_vars

(***************************************************************************)
(* The command of part_001 with the scheduling Go gives it: a goroutine    *)
(* that can take its next step takes it, every call of OpenStackEC2Auth    *)
(* returns, and a goroutine waiting in lck.Lock() gets the lock            *)
(* (sync.RWMutex lets no new reader in while a writer waits).  One thread, *)
(* so that the dispatch loop does block on the limiter.                    *)
(***************************************************************************)
LiveThreadCounts == {0, 1}

LiveInit == Init /\ threads \in LiveThreadCounts /\ ~failAll

Fairness ==
    /\ WF_vars(MainSend) /\ WF_vars(MainGo)
    /\ WF_vars(AuthOps)
    /\ WF_vars(AuthSucceeds \/ AuthFails)
    /\ SF_vars(AuthLock) /\ WF_vars(AuthTally)
    /\ WF_vars(AuthRecv)
    /\ WF_vars(RepErrors)

LiveSpec == LiveInit /\ [][Next]_vars /\ Fairness

(***************************************************************************)
(* The command in its earlier form (src/unnamed/part_000:81-132): no       *)
(* -show-errors flag, no totals, and auth goes on after a failed call.     *)
(* The dispatch loop, the start of auth and the two swaps are as above.    *)
(***************************************************************************)
\* exit status of a Go program that panics
PanicStatus == 2

Part000Init ==
    /\ threads \in ThreadCounts
    /\ debug \in BOOLEAN
    /\ showErr = FALSE
    /\ failAll \in BOOLEAN
    /\ mainPc = "start"
    /\ limiter = 0 /\ workers = NoWorkers /\ ops = 0 /\ fps = 0
    /\ totalReq = 0 /\ totalErr = 0 /\ errs = [t \in ErrTypes |-> 0]
    /\ lck = Unlocked /\ rep = RepOff /\ lines = <<>> /\ exit = NoExit
    /\ JSONIdle /\ HdrIdle /\ RTIdle /\ EC2AuthIdle

\* part_000:85-104: the call returns an error (and a nil result, pkg/main.go:
\* 18-41) and auth does atomic.AddUint64(fps, 1); with a nil limiter it prints
\* the error and exits 1; otherwise it goes on: with debug it reads
\* res.Username of the nil result (line 95) and the program panics, without
\* debug it receives from the limiter
Part000AuthFails ==
    /\ Running
    /\ fps' = AddUint64(fps, 1)
    /\ \/ /\ Step(W("call", FALSE, "nil"), W("done", FALSE, "failed"))
          /\ exit' = [exit EXCEPT !.code = 1, !.errPrinted = TRUE]
       \/ /\ debug
          /\ workers[W("call", TRUE, "nil")] > 0
          /\ exit' = [exit EXCEPT !.code = PanicStatus]
          /\ UNCHANGED workers
       \/ /\ ~debug
          /\ Step(W("call", TRUE, "nil"), W("recv", TRUE, "failed"))
          /\ UNCHANGED exit
    /\ UNCHANGED <<threads, debug, showErr, failAll, mainPc, limiter, ops, totalReq,
                   totalErr, errs, lck, rep, lines, others>>

\* part_000:118-122: the percentage and the one line
Part000Report ==
    /\ Running /\ rep.pc = "report"
    /\ lines' = Append(lines, [s |-> rep.s, f |-> rep.f, perc |-> Percent(rep.f, rep.s)])
    /\ rep' = [rep EXCEPT !.pc = "wait"]
    /\ UNCHANGED <<threads, debug, showErr, failAll, mainPc, limiter, workers, ops, fps,
                   totalReq, totalErr, errs, lck, exit, others>>

Part000Next ==
    \/ MainSingle \/ MainSingleExit \/ MainContinuous \/ MainSend \/ MainGo
    \/ AuthOps \/ AuthSucceeds \/ Part000AuthFails \/ AuthRecv
    \/ RepSwapFps \/ RepSwapOps \/ Part000Report

Part000Spec == Part000Init /\ [][Part000Next]_vars

(***************************************************************************)
(* One call of pkg.OpenStackEC2Auth.                                       *)
(***************************************************************************)
EC2AuthInit ==
    /\ ecPc = "call"
    /\ ecIn \in CreateResults
    /\ ecOut = NotCalled
    /\ JSONIdle /\ HdrIdle /\ RTIdle /\ LoadIdle

EC2AuthCall ==
    /\ ecPc = "call"
    /\ ecOut' = OpenStackEC2Auth(ecIn)
    /\ ecPc' = "returned"
    /\ UNCHANGED <<ecIn, jsVars, hdrVars, rtVars, loadVars>>

EC2AuthNext == EC2AuthCall

EC2AuthSpec == EC2AuthInit /\ [][EC2AuthNext]_vars

(***************************************************************************)
(* Claims about the command.                                               *)
(***************************************************************************)
\* C1: in continuous mode the goroutines that were started by the dispatch
\* loop and have not yet received from the limiter are never more than the
\* units in the limiter, and those never more than threads.
C1_InFlightAtMostThreads ==
    threads > 0 => (InFlight <= limiter /\ limiter <= threads)

\* threads = 1, one attempt outstanding, and the dispatch loop is at its send
\* with more to dispatch: the send blocks
C1_Witness ==
    /\ threads = 1 /\ InFlight = 1 /\ limiter = 1
    /\ mainPc = "send" /\ Dispatched < MaxAttempts

\* C3 as stated: in continuous mode, whenever N attempts have completed of
\* which F failed, totalReq = N and totalErr = F.
C3_TotalsEqualCompleted ==
    threads > 0 => (totalReq = Completed /\ totalErr = CompletedFailed)

\* the reporter is not between its swaps and its additions
BetweenTicks == rep.pc \notin {"swapOps", "report"}

\* attempts whose call has returned an error
Failed == SumOver(workers, {w \in WorkerStates : w.lim /\ w.err # "nil"})

\* C3: the totals are brought up to date by the reporter only.  In continuous
\* mode, when no attempt is outstanding, the reporter is between ticks and
\* both window counters are zero (a tick has taken all increments), totalReq
\* is the number of completed attempts and totalErr the number of failed
\* ones; and at no time does a total exceed the attempts started or failed.
C3_TotalsExactOnceAbsorbed ==
    threads > 0 =>
        /\ totalReq <= Dispatched /\ totalErr <= Failed
        /\ (InFlight = 0 /\ BetweenTicks /\ ops = 0 /\ fps = 0)
              => (totalReq = Completed /\ totalErr = CompletedFailed)

\* every attempt has completed, one at least failed, and a tick has taken all
\* the increments
C3_Witness ==
    /\ threads > 0 /\ InFlight = 0 /\ BetweenTicks /\ ops = 0 /\ fps = 0
    /\ Completed = MaxAttempts /\ CompletedFailed >= 1
    /\ totalReq = MaxAttempts /\ lines # <<>>

C7_TotalAtLeastWindow ==
    [](threads > 0 => totalReq >= ops) /\ [][totalReq' >= totalReq]_vars

\* C7: totalReq never decreases, and in every report the total of requests
\* is at least the requests of the window, as is totalReq once the first
\* report is written.
C7_TotalAccumulates ==
    /\ [](\A i \in 1..Len(lines) : lines[i].tS >= lines[i].s /\ totalReq >= lines[i].tS)
    /\ [][totalReq' >= totalReq]_vars

\* a second report whose total exceeds its window: the first window counted too
C7_Witness ==
    /\ Len(lines) >= 2
    /\ lines[1].s > 0 /\ lines[2].s > 0
    /\ lines[2].tS = lines[1].s + lines[2].s

\* what main runs itself in single-shot mode: calls of auth(nil)
SingleAttempts == SumOver(workers, {w \in WorkerStates : ~w.lim})

\* C14: with threads = 0 auth is called once, by main; the reporter and the
\* dispatch loop never start; after a successful call the token is on
\* standard output and the only exit is with status 0; after a failed call
\* the error is printed, nothing is on standard output and the process has
\* exited with status 1.
C14_SingleShot ==
    threads = 0 =>
        /\ SingleAttempts <= 1 /\ ops <= 1 /\ fps <= ops
        /\ rep.pc = "off" /\ lines = <<>> /\ limiter = 0 /\ Dispatched = 0
        /\ mainPc \in {"start", "single", "exited"}
        /\ workers[W("done", FALSE, "nil")] = 1 =>
              /\ exit.stdout = <<"token">> /\ ~exit.errPrinted
              /\ exit.code \in {0 - 1, 0} /\ ops = 1 /\ fps = 0
        /\ workers[W("done", FALSE, "failed")] = 1 =>
              /\ exit.stdout = <<>> /\ exit.errPrinted
              /\ exit.code = 1 /\ ops = 1 /\ fps = 1
        /\ exit.code = 0 => workers[W("done", FALSE, "nil")] = 1
        /\ exit.code = 1 => workers[W("done", FALSE, "failed")] = 1
        /\ exit.code \in {0 - 1, 0, 1}

\* the single attempt succeeded and main has exited with status 0
C14_Witness ==
    /\ threads = 0 /\ exit.code = 0 /\ exit.stdout = <<"token">>
    /\ mainPc = "exited" /\ ops = 1

\* C15 as claimed: in continuous mode, whatever debug and showErr are, no
\* failed attempt ends the program, and every goroutine that has returned
\* has taken its unit from the limiter (the units in the limiter are those of
\* the goroutines still running, and one more between the send and the go).
C15_FailureNeverFatal ==
    threads > 0 =>
        /\ Running
        /\ limiter = InFlight + (IF mainPc = "go" THEN 1 ELSE 0)

\* attempts of the dispatch loop that have done atomic.AddUint64(ops, 1)
Counted == SumOver(workers, {w \in WorkerStates : w.lim /\ w.pc # "ops"})

\* C18: in continuous mode, whenever the reporter is not between its swaps
\* and its additions (before the first tick and after each finished tick),
\* totalReq + ops is the number of attempts that have incremented ops, and
\* totalErr + fps is the number of attempts that have incremented fps: no
\* increment is lost and none is counted twice.
C18_NoIncrementLost ==
    (threads > 0 /\ BetweenTicks)
        => (totalReq + ops = Counted /\ totalErr + fps = Failed)

\* a tick has moved one failed attempt into the totals and the next failed
\* attempt is in the window counters
C18_Witness ==
    /\ threads > 0 /\ BetweenTicks /\ lines # <<>>
    /\ totalReq >= 1 /\ totalErr >= 1 /\ ops >= 1 /\ fps >= 1

\* C20: in every pair of lines the reporter has logged, the total of
\* failures is at most the total of requests and the total percentage is
\* between 0 and 100; the same holds of the counters behind them at every
\* moment: failures swapped or added so far never exceed the requests
\* swapped or added so far.
C20_TotalFailuresAtMostRequests ==
    /\ \A i \in 1..Len(lines) :
          /\ lines[i].tF <= lines[i].tS
          /\ lines[i].tPerc >= 0 /\ lines[i].tPerc <= 100
    /\ totalErr <= totalReq
    /\ rep.pc = "report" => totalErr + rep.f <= totalReq + rep.s

\* an attempt straddles a tick: its request is in the logged total, its
\* failure was counted after the swap of fps and waits in the window counter
C20_Witness ==
    /\ threads > 0 /\ rep.pc = "wait" /\ Len(lines) = 1
    /\ lines[1].tS = 1 /\ lines[1].tF = 0 /\ lines[1].tPerc = 0
    /\ fps = 1 /\ Failed = 1

\* C21 as claimed: in every window line the reporter has logged, the
\* failures of the window are at most its requests and the window
\* percentage is between 0 and 100.
C21_WindowFailuresAtMostRequests ==
    \A i \in 1..Len(lines) :
        /\ lines[i].f <= lines[i].s
        /\ lines[i].perc >= 0 /\ lines[i].perc <= 100

\* the dispatch loop waits at its send with the limiter full, and the model
\* lets it start one more goroutine
BlockedOnLimiter ==
    /\ threads > 0 /\ mainPc = "send"
    /\ limiter = threads /\ Dispatched < MaxAttempts

\* C17: in continuous mode the units in the limiter are at all times those
\* of the goroutines that have not returned (and one more between the send
\* and the go): every goroutine that returns has taken exactly one unit,
\* after a success and after a failure; the dispatch loop leaves its send
\* only by putting a unit in, and starts a goroutine for every unit; and
\* when every call returns, a dispatch loop blocked on the full limiter gets
\* to start another goroutine.
C17_NoCapacityLeak ==
    /\ [](threads > 0 => limiter = InFlight + (IF mainPc = "go" THEN 1 ELSE 0))
    /\ [][(mainPc = "send" /\ mainPc' # "send")
            => (limiter < threads /\ limiter' = limiter + 1 /\ mainPc' = "go")]_vars
    /\ [][(mainPc = "go" /\ mainPc' # "go") => Dispatched' = Dispatched + 1]_vars
    /\ BlockedOnLimiter ~> (mainPc = "go")

\* with one thread, the first attempt failed and gave its unit back, and the
\* dispatch loop, which had to wait for it, has started the second
C17_Witness ==
    /\ threads = 1 /\ Dispatched = 2 /\ CompletedFailed = 1
    /\ InFlight = 1 /\ limiter = 1

(***************************************************************************)
(* Claims about OpenStackEC2Auth, checked under EC2AuthSpec.               *)
(***************************************************************************)
\* the steps in the order of the claim, each with the error it fails with
\* ("nil": the step does not fail)
StepErrors(in) ==
    << in.createErr,
       IF in.userErr # "nil" THEN in.userErr
       ELSE IF in.user = NoName THEN "empty user" ELSE "nil",
       IF in.projectErr # "nil" THEN in.projectErr
       ELSE IF in.project = NoName THEN "empty project scope" ELSE "nil",
       in.tokenErr >>

\* C16: OpenStackEC2Auth returns a result and a nil error exactly when no
\* step fails (the call reported no error, user, project and token ID were
\* extracted, user and project are not nil), and the result then holds the
\* three extracted values; otherwise it returns a nil result and the error of
\* the first failing step in the order call, user, project, token ID.
C16_ResultOrFirstError ==
    ecPc = "returned" =>
        LET e == StepErrors(ecIn)
            failing == {i \in 1..4 : e[i] # "nil"}
        IN IF failing = {}
           THEN /\ ecOut.err = "nil" /\ ~ecOut.res.nil
                /\ ecOut.res = AuthResult(ecIn.user, ecIn.project, ecIn.tokenID)
           ELSE /\ ecOut.res.nil
                /\ ecOut.err # "nil"
                /\ ecOut.err = e[CHOOSE i \in failing : \A j \in failing : i <= j]

\* the call reported no error, the user is nil and the extraction of the
\* project fails too: "empty user" is returned
C16_Witness ==
    /\ ecPc = "returned"
    /\ ecIn.createErr = "nil" /\ ecIn.userErr = "nil" /\ ecIn.user = NoName
    /\ ecIn.projectErr # "nil" /\ ecIn.tokenErr # "nil"
    /\ ecOut.err = "empty user" /\ ecOut.res.nil

(***************************************************************************)
(* Claims about FormatJSON, checked under JSONSpec.                        *)
(***************************************************************************)
RECURSIVE HasPath(_, _)
HasPath(v, path) ==
    IF path = <<>> THEN TRUE
    ELSE v.t = "obj" /\ Head(path) \in DOMAIN v.o /\ HasPath(v.o[Head(path)], Tail(path))

RECURSIVE GetPath(_, _)
GetPath(v, path) == IF path = <<>> THEN v ELSE GetPath(v.o[Head(path)], Tail(path))

PwPath == <<K_auth, K_passwordCredentials, K_password>>
AuthorizationPath == <<K_credentials, K_headers, K_Authorization>>
AccessPath == <<K_credentials, K_access>>

\* the sensitive fields the specification lists (section 4.1)
SensitivePaths ==
    { PwPath, <<K_auth, K_token, K_id>>,
      <<K_auth, K_identity, K_password, K_user, K_password>>,
      <<K_auth, K_identity, K_application_credential, K_secret>>,
      <<K_auth, K_identity, K_token, K_id>>,
      AccessPath, <<K_credentials, K_body_hash>>, AuthorizationPath,
      <<K_token, K_catalog>> }

\* every key path of a value, not looking inside a sensitive field
RECURSIVE KeyPaths(_, _)
KeyPaths(v, at) ==
    IF v.t # "obj" \/ at \in SensitivePaths THEN {}
    ELSE UNION {{Append(at, k)} \cup KeyPaths(v.o[k], Append(at, k)) : k \in DOMAIN v.o}

\* FormatJSON has returned for a body that is a JSON object
JSONObjectDone == jsPc = "done" /\ Unmarshal(jsRaw).ok /\ Unmarshal(jsRaw).v.t = "obj"
JSONIn == Unmarshal(jsRaw).v
JSONOut == Unmarshal(jsOut.text).v

\* the object body holds auth.passwordCredentials.password
HasPassword == JSONObjectDone /\ HasPath(JSONIn, PwPath)

\* C8 as claimed: for every JSON object body that holds
\* auth.passwordCredentials.password with the string value P, the text
\* FormatJSON returns does not contain P anywhere.
C8_OutputNeverContainsPassword ==
    (HasPassword /\ GetPath(JSONIn, PwPath).t = "str")
        => ~Contains(jsOut.text, GetPath(JSONIn, PwPath).s)

\* C8 as amended: for every JSON object body that holds
\* auth.passwordCredentials.password, FormatJSON returns without error the
\* text of a JSON object whose auth.passwordCredentials.password is the
\* mask token (P is masked in that field; the same text in another key or
\* value is not removed).
C8_PasswordFieldMasked ==
    HasPassword =>
        /\ jsOut.err = "nil"
        /\ Unmarshal(jsOut.text).ok
        /\ HasPath(JSONOut, PwPath)
        /\ GetPath(JSONOut, PwPath) = MaskStr

\* C8 witness: a body with the password s3c has been formatted and s3c is
\* gone from the output
C8_Witness ==
    /\ HasPassword
    /\ GetPath(JSONIn, PwPath) = Str(Secret1)
    /\ ~Contains(jsOut.text, Secret1)

\* C9 as claimed: for every JSON object input the output has exactly the
\* key paths of the input, every value outside the sensitive paths is
\* unchanged, and credentials.headers.Authorization is altered only when
\* credentials.access is present and its value occurs in it.
C9_OnlyPresentSensitiveFieldsChange ==
    JSONObjectDone =>
        /\ Unmarshal(jsOut.text).ok
        /\ KeyPaths(JSONOut, <<>>) = KeyPaths(JSONIn, <<>>)
        /\ \A q \in KeyPaths(JSONIn, <<>>) \ SensitivePaths :
              GetPath(JSONIn, q).t # "obj"
                  => HasPath(JSONOut, q) /\ GetPath(JSONOut, q) = GetPath(JSONIn, q)
        /\ (/\ HasPath(JSONIn, AuthorizationPath)
            /\ HasPath(JSONOut, AuthorizationPath)
            /\ GetPath(JSONOut, AuthorizationPath) # GetPath(JSONIn, AuthorizationPath))
           => /\ HasPath(JSONIn, AccessPath)
              /\ GetPath(JSONIn, AccessPath).t = "str"
              /\ GetPath(JSONIn, AuthorizationPath).t = "str"
              /\ Contains(GetPath(JSONIn, AuthorizationPath).s, GetPath(JSONIn, AccessPath).s)

(***************************************************************************)
(* Claims about RoundTrip, checked under RTSpec.                           *)
(***************************************************************************)
RTReturned == rtPc = "returned"
Delegations == Len(rtCalls)
RetryEntries == SelectSeq(rtLog, LAMBDA e : e.what = "retry")
ExhaustedEntries == SelectSeq(rtLog, LAMBDA e : e.what = "exhausted")

RetryCountsHold ==
    (RTReturned /\ Delegations >= 1) =>
        LET n == Delegations
            last == rtCalls[n]
        IN /\ n <= rtCfg.MaxRetries + 1
           /\ \A i \in 1..(n - 1) : rtCalls[i].nil
           /\ Len(RetryEntries) = (IF rtCfg.Logger THEN n - 1 ELSE 0)
           /\ \A i \in 1..Len(RetryEntries) : RetryEntries[i].n = i
           /\ last.nil =>
                 /\ n = rtCfg.MaxRetries + 1
                 /\ rtResult.response.nil
                 /\ rtResult.err = ErrExhausted(last.err)
           /\ ~last.nil => ~rtResult.response.nil

\* C4: on every return of RoundTrip the request body the caller passed in
\* has been closed.
C4_RequestBodyClosedOnReturn ==
    (RTReturned /\ rtStreams["reqOrig"].made) => rtStreams["reqOrig"].closed

\* C4 witness: RoundTrip has returned "retries exhausted" for a request
\* whose body was not intercepted and which no delegation closed
C4_Witness ==
    /\ RTReturned
    /\ rtReq.Body = "reqOrig"
    /\ rtResult.err.last # ""
    /\ rtStreams["reqOrig"].closed
    /\ rtStreams["reqOrig"].pos = 0

\* the request body is intercepted by logRequest, the response body by logResponse
RequestIntercepted ==
    /\ rtCfg.Logger
    /\ rtStreams["reqOrig"].made
    /\ RequestIsJSON(HeaderGet(rtReq.Header, N_Content_Type))
ResponseIntercepted ==
    /\ rtCfg.Logger
    /\ rtStreams["respOrig"].made
    /\ ResponseIsJSON(HeaderGet(rtResp.Header, N_Content_Type))

\* a stream that yields exactly the bytes of the original, from the start
YieldsAll(id, orig) ==
    /\ Readable([rtStreams[id] EXCEPT !.pos = 0]) = rtStreams[orig].data
    /\ rtStreams[id].made

\* C5: an intercepted body is handed on as a stream over exactly the
\* original bytes (to the transport for a request: the first delegation can
\* read all of them; to the caller for a response), whatever was logged;
\* a body that is not intercepted is handed on as the original stream, unread.
C5_BodiesHandedOnUnchanged ==
    /\ (rtPc \in {"delegate", "loop", "returned"} /\ rtStreams["reqOrig"].made) =>
          /\ (RequestIntercepted /\ rtReq.Body # "nil") =>
                /\ rtReq.Body = "reqCopy"
                /\ YieldsAll("reqCopy", "reqOrig")
                /\ Delegations >= 1 => rtCalls[1].payload = rtStreams["reqOrig"].data
          /\ ~RequestIntercepted =>
                /\ rtReq.Body = "reqOrig"
                /\ rtPc = "delegate" => rtStreams["reqOrig"].pos = 0 /\ ~rtStreams["reqOrig"].closed
    /\ (RTReturned /\ ~rtResult.response.nil) =>
          /\ (ResponseIntercepted /\ rtResult.response.Body # "nil") =>
                /\ rtResult.response.Body = "respCopy"
                /\ YieldsAll("respCopy", "respOrig")
                /\ rtStreams["respCopy"].pos = 0
          /\ ~ResponseIntercepted =>
                /\ rtResult.response.Body = "respOrig"
                /\ rtStreams["respOrig"].pos = 0 /\ ~rtStreams["respOrig"].closed

\* C5 witness: a request body and a response body were both intercepted,
\* the logged text of each differs from its bytes (fields were masked),
\* and both were handed on
C5_Witness ==
    /\ RTReturned
    /\ RequestIntercepted /\ rtReq.Body = "reqCopy"
    /\ ResponseIntercepted /\ rtResult.response.Body = "respCopy"
    /\ FormatJSON(rtStreams["reqOrig"].data).text # rtStreams["reqOrig"].data
    /\ \E i \in 1..Len(rtLog) : rtLog[i].what = "Body" /\ rtLog[i].dir = "<-"
                                 /\ rtLog[i].text # rtStreams["respOrig"].data

\* the request body is intercepted and reading it fails before its end
RequestDrainFailed ==
    /\ RequestIntercepted
    /\ rtStreams["reqOrig"].failAt # NoFail

\* C12: with a Logger, when the read of the request body fails while
\* logRequest drains it, RoundTrip returns no response and the read error,
\* and the underlying transport was never called.
C12_RequestReadFailureAborts ==
    (RTReturned /\ RequestDrainFailed) =>
        /\ rtResult.response.nil
        /\ rtResult.err = ErrRead
        /\ Delegations = 0

\* RoundTrip has returned for a JSON request whose body fails after two
\* bytes, with a transport that is not nil
C12_Witness ==
    /\ RTReturned /\ RequestDrainFailed /\ ~rtCfg.RtNil
    /\ rtStreams["reqOrig"].pos = 2 /\ rtStreams["reqOrig"].closed
    /\ rtResult.err = ErrRead /\ rtCalls = <<>>

\* an intercepted body that was drained to its end and is not valid JSON
RequestMalformed ==
    /\ RequestIntercepted
    /\ rtStreams["reqOrig"].failAt = NoFail
    /\ FormatJSON(rtStreams["reqOrig"].data).err # "nil"
ResponseMalformed ==
    /\ ResponseIntercepted
    /\ rtStreams["respOrig"].failAt = NoFail
    /\ FormatJSON(rtStreams["respOrig"].data).err # "nil"

\* the log holds the parse error and, after it, the raw bytes as the body
LoggedRaw(dir, raw) ==
    \E i \in 1..Len(rtLog) :
        /\ rtLog[i].dir = dir /\ rtLog[i].what = "Error"
        /\ rtLog[i].err = FormatJSON(raw).err
        /\ raw # <<>> =>
              /\ i < Len(rtLog)
              /\ rtLog[i + 1].dir = dir /\ rtLog[i + 1].what = "Body" /\ rtLog[i + 1].text = raw

\* what RoundTrip returns when no body is intercepted (client.go:195-218
\* without a Logger), given the delegations made
ResultAsUnlogged(withErr) ==
    LET last == rtCalls[Len(rtCalls)] IN
    IF last.nil
    THEN rtResult.response.nil /\ rtResult.err = ErrExhausted(last.err)
    ELSE /\ ~rtResult.response.nil
         /\ rtResult.response.StatusCode = rtResp.StatusCode
         /\ rtResult.response.Body # "nil"
         /\ Readable(rtStreams[rtResult.response.Body])
               = Readable([rtStreams["respOrig"] EXCEPT !.pos = 0, !.closed = FALSE])
         /\ withErr => rtResult.err = last.err

\* the round trips C13 is about: a malformed request or response body, a
\* transport, and no read failure on the response body
MalformedRoundTrip ==
    /\ RTReturned /\ ~rtCfg.RtNil
    /\ RequestMalformed \/ ResponseMalformed
    /\ ~(ResponseIntercepted /\ rtStreams["respOrig"].failAt # NoFail)

MalformedJSONPassedOn ==
    /\ (rtPc # "start" /\ RequestMalformed) => LoggedRaw("->", rtStreams["reqOrig"].data)
    /\ (RTReturned /\ ResponseMalformed) => LoggedRaw("<-", rtStreams["respOrig"].data)
    /\ MalformedRoundTrip =>
          /\ Delegations >= 1 /\ ResultAsUnlogged(FALSE)
          /\ ~rtResult.response.nil => rtResult.err = NoErr

\* C19: a delegation that returns a response is the last one, whatever the
\* status code of the response and whatever error comes with it: from the
\* loop with a response in hand, the only step is the return of that
\* response (its status code and headers as the transport gave them), with
\* no delegation added.
C19_ResponseEndsRetries ==
    /\ [](\A i \in 1..Len(rtCalls) : ~rtCalls[i].nil => i = Len(rtCalls))
    /\ [][(rtPc = "loop" /\ ~rtResp.nil)
            => /\ rtCalls' = rtCalls
               /\ rtResult'.returned /\ ~rtResult'.response.nil
               /\ rtResult'.response.StatusCode = rtResp.StatusCode
               /\ rtResult'.response.Header = rtResp.Header]_vars

\* retries were left, the first delegation returned a 401 response together
\* with an error, and RoundTrip has returned that response after this one
\* delegation
C19_Witness ==
    /\ RTReturned /\ rtCfg.MaxRetries >= 1
    /\ Len(rtCalls) = 1 /\ ~rtCalls[1].nil /\ rtCalls[1].err # NoErr
    /\ ~rtResult.response.nil /\ rtResult.response.StatusCode = 401

\* C22 as claimed: RoundTrip returns either a response or an error, never
\* both and never neither; a returned error comes with no response, also
\* when the drain of the response body for the log fails; and a returned
\* response has a body that is not nil and can be read.
C22_ResponseXorError ==
    RTReturned =>
        /\ rtResult.response.nil <=> (rtResult.err # NoErr)
        /\ ~rtResult.response.nil =>
              /\ rtResult.response.Body # "nil"
              /\ rtStreams[rtResult.response.Body].made
              /\ ~rtStreams[rtResult.response.Body].closed

\* C23 as claimed: every delegation of a round trip, the first and each
\* retry, is given a request whose body yields the complete payload of the
\* request the caller passed in (a body whose own read fails is left
\* aside): what an earlier delegation has read is there again for the next.
C23_RetriesSeeWholeBody ==
    (rtStreams["reqOrig"].made /\ rtStreams["reqOrig"].failAt = NoFail) =>
        \A i \in 1..Len(rtCalls) : rtCalls[i].payload = rtStreams["reqOrig"].data

(***************************************************************************)
(* Claims about header masking, checked under HdrSpec.                     *)
(***************************************************************************)
\* C10 as claimed: for every sensitive set configured through
\* SetSensitiveHeaders (names in any letter case) and every logged header
\* whose name equals a member of the set ignoring case, the formatted line
\* of that header shows the mask token instead of the value.
C10_ConfiguredHeadersMaskedAnyCase ==
    (hdrPc = "done" /\ maskHeaders.set) =>
        \A h \in DOMAIN hdrIn :
            (\E n \in maskHeaders.names : ToLower(n) = ToLower(h))
                => HasLine(hdrOut, h \o <<":", " ">> \o MaskText)

\* C11: with no sensitive set configured, every logged header whose
\* lower-cased name is in the default set has the line "name: ***", whatever
\* the letter case of its name, and every other header has the line of its
\* name and its values joined by spaces.
C11_DefaultHeadersMaskedAnyCase ==
    (hdrPc = "done" /\ ~maskHeaders.set) =>
        \A h \in DOMAIN hdrIn :
            IF ToLower(h) \in defaultSensitiveHeaders
            THEN HasLine(hdrOut, h \o <<":", " ">> \o MaskText)
            ELSE HasLine(hdrOut, h \o <<":", " ">> \o Join(hdrIn[h], <<" ">>))

\* X-Auth-Key and Set-Cookie in mixed case and Accept with two values were
\* logged under the default set
C11_Witness ==
    /\ hdrPc = "done" /\ ~maskHeaders.set
    /\ {N_X_Auth_Key, N_Set_Cookie, N_Accept} \subseteq DOMAIN hdrIn
    /\ hdrIn[N_X_Auth_Key] = <<Secret1>> /\ hdrIn[N_Accept] = <<Bob, Secret1>>
    /\ ~Contains(hdrOut, N_X_Auth_Key \o <<":", " ">> \o Secret1)

====
